---------------------------- MODULE Spec2Model ----------------------------
(***************************************************************************)
(* The binary codec of psi-spell-encode (src/lib.rs): Spell::bin and       *)
(* Spell::decode.  Text is a sequence of bytes (0..255), Option<T> is a    *)
(* sequence of length 0 (None) or 1 (Some), and a HashMap<String, u8> is a *)
(* set of <<name, side>> pairs with unique names.  Spell::bin is one       *)
(* action; Spell::decode is stepped through its reads, its locals being    *)
(* state variables.  A panic (unwrap on an Err, a slice or index out of    *)
(* range) ends the call without a result.                                  *)
(***************************************************************************)
EXTENDS Integers, Sequences, FiniteSets

\* ------------------------------------------------------------------ bytes

NUL == 0
COMMA == 44
SEMICOLON == 59
RBRACKET == 93
COLON == 58
TY_CONSTANT == 255
TY_BARE == 254
CUSTOM_KEY == 255
U8Max == 255

Byte == 0..U8Max

None == <<>>
Some(v) == <<v>>
IsSome(o) == Len(o) = 1
Unwrap(o) == o[1]

\* "psi:"
PSI == <<112, 115, 105, 58>>

Range(s) == {s[i] : i \in 1..Len(s)}

Min(S) == CHOOSE m \in S : \A n \in S : m <= n

\* Vec::pop: drops the last element, nothing on an empty vector.
Pop(s) == IF s = <<>> THEN <<>> ELSE SubSeq(s, 1, Len(s) - 1)

\* ------------------------------------------------------------ dictionary

BUILTIN_PARAMS ==
   <<
      <<95, 116, 97, 114, 103, 101, 116>>,   \* _target
      <<95, 110, 117, 109, 98, 101, 114>>,   \* _number
      <<95, 110, 117, 109, 98, 101, 114, 49>>,   \* _number1
      <<95, 110, 117, 109, 98, 101, 114, 50>>,   \* _number2
      <<95, 110, 117, 109, 98, 101, 114, 51>>,   \* _number3
      <<95, 110, 117, 109, 98, 101, 114, 52>>,   \* _number4
      <<95, 118, 101, 99, 116, 111, 114, 49>>,   \* _vector1
      <<95, 118, 101, 99, 116, 111, 114, 50>>,   \* _vector2
      <<95, 118, 101, 99, 116, 111, 114, 51>>,   \* _vector3
      <<95, 118, 101, 99, 116, 111, 114, 52>>,   \* _vector4
      <<95, 112, 111, 115, 105, 116, 105, 111, 110>>,   \* _position
      <<95, 109, 105, 110>>,   \* _min
      <<95, 109, 97, 120>>,   \* _max
      <<95, 112, 111, 119, 101, 114>>,   \* _power
      <<95, 120>>,   \* _x
      <<95, 121>>,   \* _y
      <<95, 122>>,   \* _z
      <<95, 114, 97, 100, 105, 117, 115>>,   \* _radius
      <<95, 100, 105, 115, 116, 97, 110, 99, 101>>,   \* _distance
      <<95, 116, 105, 109, 101>>,   \* _time
      <<95, 98, 97, 115, 101>>,   \* _base
      <<95, 114, 97, 121>>,   \* _ray
      <<95, 118, 101, 99, 116, 111, 114>>,   \* _vector
      <<95, 97, 120, 105, 115>>,   \* _axis
      <<95, 97, 110, 103, 108, 101>>,   \* _angle
      <<95, 112, 105, 116, 99, 104>>,   \* _pitch
      <<95, 105, 110, 115, 116, 114, 117, 109, 101, 110, 116>>,   \* _instrument
      <<95, 118, 111, 108, 117, 109, 101>>,   \* _volume
      <<95, 108, 105, 115, 116, 49>>,   \* _list1
      <<95, 108, 105, 115, 116, 50>>,   \* _list2
      <<95, 108, 105, 115, 116>>,   \* _list
      <<95, 100, 105, 114, 101, 99, 116, 105, 111, 110>>,   \* _direction
      <<95, 102, 114, 111, 109, 49>>,   \* _from1
      <<95, 102, 114, 111, 109, 50>>,   \* _from2
      <<95, 116, 111, 49>>,   \* _to1
      <<95, 116, 111, 50>>,   \* _to2
      <<95, 114, 111, 111, 116>>,   \* _root
      <<95, 116, 111, 103, 103, 108, 101>>,   \* _toggle
      <<95, 109, 97, 115, 107>>,   \* _mask
      <<95, 99, 104, 97, 110, 110, 101, 108>>,   \* _channel
      <<95, 115, 108, 111, 116>>,   \* _slot
      <<95, 114, 97, 121, 95, 101, 110, 100>>,   \* _ray_end
      <<95, 114, 97, 121, 95, 115, 116, 97, 114, 116>>   \* _ray_start
   >>

\* A position counted from one.
Position_FromOne(key) ==
   LET hits == {i \in 1..Len(BUILTIN_PARAMS) : BUILTIN_PARAMS[i] = key}
   IN  IF hits = {} THEN None ELSE Some(Min(hits))

\* BUILTIN_PARAMS.iter().position(|e| **e == *key): None, or Some(zero-based index).
Position(key) ==
   LET hits == {i \in 1..Len(BUILTIN_PARAMS) : BUILTIN_PARAMS[i] = key}
   IN  IF hits = {} THEN None ELSE Some(Min(hits) - 1)

\* A lookup that falls back to the empty name instead of panicking.
BuiltinAt_Default(i) ==
   IF i < Len(BUILTIN_PARAMS) THEN Some(BUILTIN_PARAMS[i + 1]) ELSE Some(<<>>)

\* BUILTIN_PARAMS[type_or_pos as usize]: Some(name), or None where the index is
\* out of range and the indexing panics.
BuiltinAt(i) == IF i < Len(BUILTIN_PARAMS) THEN Some(BUILTIN_PARAMS[i + 1]) ELSE None

\* ------------------------------------------------------------------ UTF-8

IsCont(b) == b >= 128 /\ b <= 191

\* String::from_utf8 accepts exactly the well-formed UTF-8 byte sequences.
RECURSIVE ValidUtf8(_)
ValidUtf8(s) ==
   IF s = <<>> THEN TRUE
   ELSE LET b == s[1]
            n == Len(s)
            rest(k) == SubSeq(s, k + 1, n)
        IN  CASE b < 128 -> ValidUtf8(rest(1))
              [] b >= 194 /\ b <= 223 ->
                    n >= 2 /\ IsCont(s[2]) /\ ValidUtf8(rest(2))
              [] b >= 224 /\ b <= 239 ->
                    /\ n >= 3
                    /\ IsCont(s[2])
                    /\ IsCont(s[3])
                    /\ (b = 224 => s[2] >= 160)
                    /\ (b = 237 => s[2] <= 159)
                    /\ ValidUtf8(rest(3))
              [] b >= 240 /\ b <= 244 ->
                    /\ n >= 4
                    /\ IsCont(s[2])
                    /\ IsCont(s[3])
                    /\ IsCont(s[4])
                    /\ (b = 240 => s[2] >= 144)
                    /\ (b = 244 => s[2] <= 143)
                    /\ ValidUtf8(rest(4))
              [] OTHER -> FALSE

\* btos: String::from_utf8(b).unwrap() panics on bytes that are not UTF-8.
btosPanics(b) == ~ValidUtf8(b)

\* ----------------------------------------------------------- Spell::bin

\* The orders in which a HashMap's entries may be iterated.
RECURSIVE IterOrders(_)
IterOrders(S) ==
   IF S = {} THEN {<<>>}
   ELSE UNION {{<<e>> \o p : p \in IterOrders(S \ {e})} : e \in S}

\* for m in &self.mods: name ',' version ';'
RECURSIVE ModsBytes(_)
ModsBytes(ms) ==
   IF ms = <<>> THEN <<>>
   ELSE Head(ms).name \o <<COMMA>> \o Head(ms).version \o <<SEMICOLON>>
           \o ModsBytes(Tail(ms))

\* `]` pushed after the last byte instead of written over it.
SetLast_Push(out) == out \o <<RBRACKET>>

\* let last = out.len() - 1; out[last] = b']';
SetLast(out) == [out EXCEPT ![Len(out)] = RBRACKET]

\* &key[0..4] panics when the key is shorter than four bytes.
KeySlicePanics(key) == Len(key) < 4

StripKey(key) ==
   IF SubSeq(key, 1, 4) = PSI THEN SubSeq(key, 5, Len(key)) ELSE key

\* The packing without the mask on y.
PackXY_NoMask(px, py) == ((px * 16) + py) % (U8Max + 1)

\* piece.x << 4 | (piece.y & 0b1111), in u8.
PackXY(px, py) == ((px * 16) % (U8Max + 1)) + (py % 16)

\* One parameter entry: the dictionary index or 255, name, NUL; then the side.
ParamBytes(p) ==
   LET pos == Position(p[1])
   IN  (IF IsSome(pos) THEN <<Unwrap(pos)>>
        ELSE <<CUSTOM_KEY>> \o p[1] \o <<NUL>>) \o <<p[2]>>

RECURSIVE ParamsBytes(_)
ParamsBytes(ord) ==
   IF ord = <<>> THEN <<>> ELSE ParamBytes(Head(ord)) \o ParamsBytes(Tail(ord))

\* params.len() as u8
LenByte(n) == n % (U8Max + 1)

\* The payload of a piece, its parameters iterated in the order ord.
PayloadBytes(d, ord) ==
   IF IsSome(d.params) THEN <<LenByte(Cardinality(Unwrap(d.params)))>> \o ParamsBytes(ord)
   ELSE IF IsSome(d.constant) THEN <<TY_CONSTANT>> \o Unwrap(d.constant) \o <<NUL>>
   ELSE <<TY_BARE>>

CommentBytes(c) == IF IsSome(c) THEN Unwrap(c) ELSE <<>>

PieceBytes(piece, ord) ==
   <<PackXY(piece.x, piece.y)>> \o StripKey(piece.data.key) \o <<NUL>>
      \o CommentBytes(piece.data.comment) \o <<NUL>>
      \o PayloadBytes(piece.data, ord)

PieceBins(piece) ==
   {PieceBytes(piece, ord) :
       ord \in IF IsSome(piece.data.params) THEN IterOrders(Unwrap(piece.data.params))
               ELSE {<<>>}}

RECURSIVE PiecesBins(_)
PiecesBins(ps) ==
   IF ps = <<>> THEN {<<>>}
   ELSE {a \o b : a \in PieceBins(Head(ps)), b \in PiecesBins(Tail(ps))}

binPanics(s) == \E i \in 1..Len(s.pieces) : KeySlicePanics(s.pieces[i].data.key)

\* The byte sequences Spell::bin may return for s (it returns none when it panics).
bin(s) ==
   IF binPanics(s) THEN {}
   ELSE {SetLast(s.name \o <<NUL>> \o ModsBytes(s.mods)) \o b : b \in PiecesBins(s.pieces)}

\* -------------------------------------------------------- Spell::decode

\* BufRead::read_until on a Cursor: the bytes from the cursor up to and including
\* the first delimiter, or up to the end of the input when there is none (that is
\* no error); then out.pop() drops the last byte read, delimiter or not.
read_until(d, p, byte) ==
   LET hits == {j \in (p + 1)..Len(d) : d[j] = byte}
       stop == IF hits = {} THEN Len(d) ELSE Min(hits)
   IN  [out |-> Pop(SubSeq(d, p + 1, stop)), pos |-> stop]

read_until_nul(d, p) == read_until(d, p, NUL)

\* next: read_exact of one byte fails at the end of the input, and unwrap panics.
nextPanics(d, p) == p >= Len(d)

next(d, p) == d[p + 1]

\* slice::split: the subslices between separators (one empty subslice of an
\* empty slice).
RECURSIVE Split(_, _)
Split(s, sep) ==
   LET hits == {j \in 1..Len(s) : s[j] = sep}
   IN  IF hits = {} THEN <<s>>
       ELSE <<SubSeq(s, 1, Min(hits) - 1)>> \o Split(SubSeq(s, Min(hits) + 1, Len(s)), sep)

SelectNot(s, b) == SelectSeq(s, LAMBDA e : e # b)

\* The inner loop over a segment: bytes before the first ',' are the name, the
\* bytes after it that are not ',' are the version.
ModOf(seg) ==
   LET hits == {j \in 1..Len(seg) : seg[j] = COMMA}
   IN  IF hits = {} THEN [name |-> seg, version |-> <<>>]
       ELSE [name |-> SubSeq(seg, 1, Min(hits) - 1),
             version |-> SelectNot(SubSeq(seg, Min(hits) + 1, Len(seg)), COMMA)]

ModsOf(m) == LET segs == Split(m, SEMICOLON) IN [i \in 1..Len(segs) |-> ModOf(segs[i])]

ModsPanic(ms) ==
   \E i \in 1..Len(ms) : btosPanics(ms[i].name) \/ btosPanics(ms[i].version)

\* if !key.contains(&b':') the four bytes "psi:" are put in front.
RestoreKey(k) == IF COLON \in Range(k) THEN k ELSE PSI \o k

\* let comment = if comment.is_empty() { None } else { Some(comment) };
CommentOf(c) == IF c = <<>> THEN None ELSE Some(c)

\* HashMap::insert: the entry of that name, if any, is replaced.
Insert(m, k, v) == {e \in m : e[1] # k} \cup {<<k, v>>}

\* The map kept as it is, empty or not.
ParamsOf_Always(m) == Some(m)

\* let params = if params.is_empty() { None } else { Some(params) };
ParamsOf(m) == IF m = {} THEN None ELSE Some(m)

\* ------------------------------------------------------------------ state

VARIABLES
   pc,        \* where the caller, or Spell::decode, stands
   spell,     \* the record given to Spell::bin
   data,      \* the bytes given to Spell::decode
   pos,       \* the cursor: the number of bytes consumed
   name, mods, pieces,                    \* decode's record under construction
   x, y, key, comment, params, constant,  \* the locals of one loop iteration
   ty,        \* the discriminator byte of the piece being decoded
   todo,      \* iterations left of `for _ in 0..len`
   cause,     \* what Spell::decode panicked on, "" while it has not
   out2       \* the bytes of the second Spell::bin

vars == <<pc, spell, data, pos, name, mods, pieces, x, y, key, comment, params,
          constant, ty, todo, cause, out2>>

locals == <<x, y, key, comment, params, constant, ty, todo>>

NoSpell == [name |-> <<>>, mods |-> <<>>, pieces |-> <<>>]

\* What Spell::decode returns (when pc = "done").
Decoded == [name |-> name, mods |-> mods, pieces |-> pieces]

Fresh ==
   /\ pos = 0
   /\ name = <<>>
   /\ mods = <<>>
   /\ pieces = <<>>
   /\ x = 0
   /\ y = 0
   /\ key = <<>>
   /\ comment = None
   /\ params = {}
   /\ constant = None
   /\ ty = 0
   /\ todo = 0
   /\ cause = ""
   /\ out2 = <<>>

Panic(c) ==
   /\ pc' = "panic"
   /\ cause' = c
   /\ UNCHANGED <<spell, data, pos, name, mods, pieces, locals, out2>>

\* Spell::bin(&spell), its result handed to Spell::decode.
Encode ==
   /\ pc = "start"
   /\ IF bin(spell) = {}
         THEN pc' = "bin_panic" /\ data' = data
         ELSE pc' = "name" /\ data' \in bin(spell)
   /\ UNCHANGED <<spell, pos, name, mods, pieces, locals, cause, out2>>

\* let name = btos(read_until_nul(&mut cursor));
DecName ==
   /\ pc = "name"
   /\ LET r == read_until_nul(data, pos)
      IN  IF btosPanics(r.out) THEN Panic("utf8")
          ELSE /\ name' = r.out
               /\ pos' = r.pos
               /\ pc' = "mods"
               /\ UNCHANGED <<spell, data, mods, pieces, locals, cause, out2>>

\* The block that reads the mod list up to ']' and splits it.
DecMods ==
   /\ pc = "mods"
   /\ LET r == read_until(data, pos, RBRACKET)
          ms == ModsOf(r.out)
      IN  IF ModsPanic(ms) THEN Panic("utf8")
          ELSE /\ mods' = ms
               /\ pos' = r.pos
               /\ pc' = "loop"
               /\ UNCHANGED <<spell, data, name, pieces, locals, cause, out2>>

\* while cursor.fill_buf() is not empty: read the coordinate byte; else return.
DecLoop ==
   /\ pc = "loop"
   /\ IF pos >= Len(data)
         THEN /\ pc' = "done"
              /\ UNCHANGED <<pos, x, y>>
         ELSE /\ x' = next(data, pos) \div 16
              /\ y' = next(data, pos) % 16
              /\ pos' = pos + 1
              /\ pc' = "key"
   /\ UNCHANGED <<spell, data, name, mods, pieces, key, comment, params, constant,
                  ty, todo, cause, out2>>

DecKey ==
   /\ pc = "key"
   /\ LET r == read_until_nul(data, pos)
          k == RestoreKey(r.out)
      IN  IF btosPanics(k) THEN Panic("utf8")
          ELSE /\ key' = k
               /\ pos' = r.pos
               /\ pc' = "comment"
               /\ UNCHANGED <<spell, data, name, mods, pieces, x, y, comment, params,
                              constant, ty, todo, cause, out2>>

DecComment ==
   /\ pc = "comment"
   /\ LET r == read_until_nul(data, pos)
      IN  IF btosPanics(r.out) THEN Panic("utf8")
          ELSE /\ comment' = CommentOf(r.out)
               /\ pos' = r.pos
               /\ pc' = "type"
               /\ UNCHANGED <<spell, data, name, mods, pieces, x, y, key, params,
                              constant, ty, todo, cause, out2>>

\* let ty = next(&mut cursor); and the constant, or the start of the parameter loop.
DecType ==
   /\ pc = "type"
   /\ IF nextPanics(data, pos) THEN Panic("eof")
      ELSE LET t == next(data, pos)
               r == read_until_nul(data, pos + 1)
           IN  IF t = TY_CONSTANT /\ btosPanics(r.out) THEN Panic("utf8")
               ELSE /\ ty' = t
                    /\ params' = {}
                    /\ constant' = IF t = TY_CONSTANT THEN Some(r.out) ELSE None
                    /\ pos' = IF t = TY_CONSTANT THEN r.pos ELSE pos + 1
                    /\ todo' = IF t = TY_CONSTANT \/ t = TY_BARE THEN 0 ELSE t
                    /\ pc' = IF t = TY_CONSTANT \/ t = TY_BARE THEN "push" ELSE "param"
                    /\ UNCHANGED <<spell, data, name, mods, pieces, x, y, key, comment,
                                   cause, out2>>

\* One iteration of `for _ in 0..len`, or the loop's end.
DecParam ==
   /\ pc = "param"
   /\ IF todo = 0
         THEN /\ pc' = "push"
              /\ UNCHANGED <<spell, data, pos, name, mods, pieces, locals, cause, out2>>
      ELSE IF nextPanics(data, pos) THEN Panic("eof")
      ELSE LET b == next(data, pos)
               r == read_until_nul(data, pos + 1)
               custom == b = CUSTOM_KEY
               at == IF custom THEN r.pos ELSE pos + 1
           IN  IF custom /\ btosPanics(r.out) THEN Panic("utf8")
               ELSE IF ~custom /\ ~IsSome(BuiltinAt(b)) THEN Panic("index")
               ELSE IF nextPanics(data, at) THEN Panic("eof")
               ELSE /\ params' = Insert(params, IF custom THEN r.out ELSE Unwrap(BuiltinAt(b)),
                                        next(data, at))
                    /\ pos' = at + 1
                    /\ todo' = todo - 1
                    /\ pc' = "param"
                    /\ UNCHANGED <<spell, data, name, mods, pieces, x, y, key, comment,
                                   constant, ty, cause, out2>>

\* pieces.push(Piece { data, x, y });
DecPush ==
   /\ pc = "push"
   /\ pieces' = Append(pieces,
                   [x |-> x, y |-> y,
                    data |-> [key |-> key, params |-> ParamsOf(params),
                              constant |-> constant, comment |-> comment]])
   /\ pc' = "loop"
   /\ UNCHANGED <<spell, data, pos, name, mods, locals, cause, out2>>

\* Spell::bin of the record Spell::decode returned.
ReEncode ==
   /\ pc = "done"
   /\ IF bin(Decoded) = {}
         THEN pc' = "rebin_panic" /\ out2' = out2
         ELSE pc' = "rebin" /\ out2' \in bin(Decoded)
   /\ UNCHANGED <<spell, data, pos, name, mods, pieces, locals, cause>>

NextDecode ==
   \/ DecName
   \/ DecMods
   \/ DecLoop
   \/ DecKey
   \/ DecComment
   \/ DecType
   \/ DecParam
   \/ DecPush

Next == Encode \/ NextDecode \/ ReEncode

\* ----------------------------------------------------------------- inputs

MaxMods == 1
MaxPieces == 1
MaxParams == 1
MaxCoord == 17
MaxTail == 4

\* The sequences over S of length at most n.
SeqsUpTo(S, n) == UNION {[1..k -> S] : k \in 0..n}

Names(m) == {e[1] : e \in m}

\* A mapping: no name twice.
IsMap(m) == Cardinality(Names(m)) = Cardinality(m)

MkPiece(px, py, k, c, ps, cn) ==
   [x |-> px, y |-> py,
    data |-> [key |-> k, params |-> ps, constant |-> cn, comment |-> c]]

\* "_radius" (in the dictionary) and "_c" (not in it)
P_RADIUS == BUILTIN_PARAMS[18]
P_CUSTOM == <<95, 99>>

\* "F" and "F]"
NameInputs == {<<70>>, <<70, RBRACKET>>}

\* psi 1, and a mod with an empty name and version
ModInputs == {[name |-> <<112, 115, 105>>, version |-> <<49>>],
              [name |-> <<>>, version |-> <<>>]}

\* "psi:n" and "b:az"
GoodKeys == {PSI \o <<110>>, <<98, 58, 97, 122>>}

\* none, and "c]"
CommentInputs == {None, Some(<<99, 93>>)}

\* bare, the constant "5", one dictionary parameter, a dictionary and a custom one
PayloadInputs ==
   {<<None, None>>,
    <<None, Some(<<53>>)>>,
    <<Some({<<P_RADIUS, 1>>}), None>>,
    <<Some({<<P_RADIUS, 1>>, <<P_CUSTOM, 255>>}), None>>}

\* (2, 3), and (9, 0), whose coordinate byte 0x90 is no UTF-8 on its own
XYInputs == {<<2, 3>>, <<9, 0>>}

PieceInputs ==
   {MkPiece(xy[1], xy[2], k, c, p[1], p[2]) :
       xy \in XYInputs, k \in GoodKeys, c \in CommentInputs, p \in PayloadInputs}

\* Records whose piece keys are at least four bytes long, with or without mods.
Init ==
   /\ pc = "start"
   /\ spell \in [name : NameInputs,
                 mods : SeqsUpTo(ModInputs, MaxMods),
                 pieces : SeqsUpTo(PieceInputs, MaxPieces)]
   /\ data = <<>>
   /\ Fresh

Spec == Init /\ [][Next]_vars

\* One mod, psi 1, and the name "F": the frame of the single-piece inputs.
OneMod == <<[name |-> <<112, 115, 105>>, version |-> <<49>>]>>

Framed(piece) == [name |-> <<70>>, mods |-> OneMod, pieces |-> <<piece>>]

\* "psi:number", "bar:baz", "a:b", "psi:", "psi:a:b", "abcd"
KeyInputs ==
   {PSI \o <<110, 117, 109, 98, 101, 114>>,
    <<98, 97, 114, 58, 98, 97, 122>>,
    <<97, 58, 98>>,
    PSI,
    PSI \o <<97, 58, 98>>,
    <<97, 98, 99, 100>>}

\* none, the empty comment, "c"
CommentsAll == {None, Some(<<>>), Some(<<99>>)}

\* bare, the constants "5" and "", no parameter at all, one and two parameters
PayloadsAll ==
   {<<None, None>>,
    <<None, Some(<<53>>)>>,
    <<None, Some(<<>>)>>,
    <<Some({}), None>>,
    <<Some({<<P_RADIUS, 1>>}), None>>,
    <<Some({<<P_RADIUS, 1>>, <<P_CUSTOM, 255>>}), None>>}

\* Single-piece records with keys of every shape.
InitKeys ==
   /\ pc = "start"
   /\ spell \in {Framed(MkPiece(2, 3, k, c, p[1], p[2])) :
                    k \in KeyInputs, c \in CommentsAll, p \in PayloadsAll}
   /\ data = <<>>
   /\ Fresh

SpecKeys == InitKeys /\ [][Next]_vars

CoordInputs == (0..MaxCoord) \cup {127, 128, 240, U8Max}

\* One piece at every pair of coordinates a u8 pair may hold (sampled).
InitCoord ==
   /\ pc = "start"
   /\ spell \in {Framed(MkPiece(px, py, PSI \o <<110>>, None, Some({<<P_RADIUS, 1>>}), None)) :
                    px \in CoordInputs, py \in CoordInputs}
   /\ data = <<>>
   /\ Fresh

SpecCoord == InitCoord /\ [][Next]_vars

\* Every dictionary name, and "", "_c", "_targe", "_target_" and "_x:" beside them.
ParamNameInputs ==
   Range(BUILTIN_PARAMS)
      \cup {<<>>, P_CUSTOM, Pop(BUILTIN_PARAMS[1]), BUILTIN_PARAMS[1] \o <<95>>,
            BUILTIN_PARAMS[15] \o <<58>>}

SideInputs == {0, 7, TY_BARE, U8Max}

ParamMaps ==
   {m \in {Range(q) : q \in SeqsUpTo(ParamNameInputs \X SideInputs, MaxParams)} :
       m # {} /\ IsMap(m)}

\* One piece with parameters drawn from the dictionary and from custom names.
InitParams ==
   /\ pc = "start"
   /\ spell \in {Framed(MkPiece(2, 3, PSI \o <<110>>, None, Some(m), None)) : m \in ParamMaps}
   /\ data = <<>>
   /\ Fresh

SpecParams == InitParams /\ [][Next]_vars

\* Untrusted input: a frame already well formed, then every tail over the bytes
\* that matter where the tail is read.
\*   nothing                        then NUL , ; ] * 254 255
\*   NUL ]                          then NUL 1 * : 254 255
\*   NUL ] 0x23 "n" NUL NUL         then NUL 1 2 * , 254 255
RawFrames ==
   {<<<<>>, {NUL, COMMA, SEMICOLON, RBRACKET, 42, TY_BARE, U8Max}>>,
    <<<<NUL, RBRACKET>>, {NUL, 1, 42, COLON, TY_BARE, U8Max}>>,
    <<<<NUL, RBRACKET, 35, 110, NUL, NUL>>, {NUL, 1, 2, 42, COMMA, TY_BARE, U8Max}>>}

RawInputs == UNION {{f[1] \o t : t \in SeqsUpTo(f[2], MaxTail)} : f \in RawFrames}

InitDecode ==
   /\ pc = "name"
   /\ spell = NoSpell
   /\ data \in RawInputs
   /\ Fresh

SpecDecode == InitDecode /\ [][NextDecode]_vars

\* ----------------------------------------------------------------- claims

\* The data-model invariants of a record.
NoByte(b, t) == b \notin Range(t)

ModOk(m) ==
   \A b \in {COMMA, SEMICOLON, RBRACKET} : NoByte(b, m.name) /\ NoByte(b, m.version)

PieceOk(p) ==
   /\ p.x \in 0..15
   /\ p.y \in 0..15
   /\ NoByte(NUL, p.data.key)
   /\ IsSome(p.data.comment) => NoByte(NUL, Unwrap(p.data.comment))
   /\ IsSome(p.data.constant) => NoByte(NUL, Unwrap(p.data.constant))
   /\ ~(IsSome(p.data.params) /\ IsSome(p.data.constant))
   /\ IsSome(p.data.params) =>
         /\ Cardinality(Unwrap(p.data.params)) <= U8Max
         /\ \A e \in Unwrap(p.data.params) : NoByte(NUL, e[1])

SatisfiesInvariants(s) ==
   /\ s.mods # <<>>
   /\ NoByte(NUL, s.name)
   /\ \A i \in 1..Len(s.mods) : ModOk(s.mods[i])
   /\ \A i \in 1..Len(s.pieces) : PieceOk(s.pieces[i])

Returned == pc \in {"done", "rebin", "rebin_panic"}

\* C1: for every record that satisfies the data-model invariants, Spell::bin and
\* Spell::decode of its result both return, and the decoded record equals the
\* original.
CX_C1 ==
   SatisfiesInvariants(spell) =>
      /\ pc \notin {"bin_panic", "panic"}
      /\ Returned => Decoded = spell

\* An empty comment made absent, everything else kept.
NormalComments(s) ==
   [s EXCEPT !.pieces =
      [i \in 1..Len(s.pieces) |->
         [s.pieces[i] EXCEPT !.data.comment =
            IF @ = Some(<<>>) THEN None ELSE @]]]

NoParameters(s) == \A i \in 1..Len(s.pieces) : ~IsSome(s.pieces[i].data.params)

\* C2: for every record that satisfies the invariants and carries no parameters,
\* encoding, decoding and encoding again all succeed, the two encodings are the
\* same bytes, and the decoded record is the original with empty comments absent.
CX_C2 ==
   (SatisfiesInvariants(spell) /\ NoParameters(spell)) =>
      /\ pc \notin {"bin_panic", "panic", "rebin_panic"}
      /\ Returned => Decoded = NormalComments(spell)
      /\ pc = "rebin" => out2 = data

\* A key of the form namespace:name, without NUL.
Namespaced(k) == COLON \in Range(k) /\ NoByte(NUL, k)

\* C3: every piece key of the form namespace:name is encoded, and decodes to the
\* same key.
CX_C3 ==
   \A i \in 1..Len(spell.pieces) :
      Namespaced(spell.pieces[i].data.key) =>
         /\ pc \notin {"bin_panic", "panic"}
         /\ Returned => pieces[i].data.key = spell.pieces[i].data.key

\* Where the coordinate byte of the first piece stands in the encoding.
CoordAt(s) == Len(s.name) + 1 + Len(ModsBytes(s.mods)) + 1

Encoded == pc \notin {"start", "bin_panic"}

InPiece == pc \in {"key", "comment", "type", "param", "push"}

\* C4: for x and y in 0..255 the encoder writes the coordinate byte
\* (x mod 16) * 16 + (y mod 16) without failing, and the decoder reads x mod 16
\* and y mod 16 from it, without failing.
Thm_C4 ==
   LET p == spell.pieces[1]
   IN  /\ p.x \in Byte /\ p.y \in Byte
       /\ pc \notin {"bin_panic", "panic"}
       /\ Encoded => data[CoordAt(spell)] = (p.x % 16) * 16 + (p.y % 16)
       /\ InPiece => x = p.x % 16 /\ y = p.y % 16
       /\ Returned => pieces[1].x = p.x % 16 /\ pieces[1].y = p.y % 16

\* C4 happens: x = 16, y = 16 has been encoded and decoded, to x = 0, y = 0.
W_C4 ==
   /\ pc = "done"
   /\ spell.pieces[1].x = 16
   /\ spell.pieces[1].y = 16
   /\ pieces[1].x = 0
   /\ pieces[1].y = 0

\* The bytes the format gives a parameter entry: [i, side] for entry i of the
\* dictionary, else 255, the name, NUL, side.
ExpectedEntry(e) ==
   LET is == {i \in 0..42 : BUILTIN_PARAMS[i + 1] = e[1]}
   IN  IF is # {} THEN <<CHOOSE i \in is : TRUE, e[2]>>
       ELSE <<255>> \o e[1] \o <<0, e[2]>>

RECURSIVE ExpectedEntries(_)
ExpectedEntries(ord) ==
   IF ord = <<>> THEN <<>> ELSE ExpectedEntry(Head(ord)) \o ExpectedEntries(Tail(ord))

EndsWith(d, t) == Len(d) >= Len(t) /\ SubSeq(d, Len(d) - Len(t) + 1, Len(d)) = t

\* C5: the encoder writes each parameter entry as [i, side] when its name is entry
\* i of the 43-entry dictionary and as 255, name, NUL, side otherwise, and the
\* decoder reads the original name -> side mapping back.
Thm_C5 ==
   LET m == Unwrap(spell.pieces[1].data.params)
   IN  /\ Len(BUILTIN_PARAMS) = 43
       /\ pc \notin {"bin_panic", "panic"}
       /\ Encoded =>
             \E ord \in IterOrders(m) :
                EndsWith(data, <<NUL, NUL, Cardinality(m)>> \o ExpectedEntries(ord))
       /\ Returned => pieces[1].data.params = Some(m)

\* C5 happens: "_radius" -> 7 went out as [17, 7] and came back.
W_C5 ==
   /\ pc = "done"
   /\ spell.pieces[1].data.params = Some({<<P_RADIUS, 7>>})
   /\ EndsWith(data, <<1, 17, 7>>)
   /\ pieces[1].data.params = Some({<<P_RADIUS, 7>>})

\* The custom form of C5: "_c" -> 7 went out as 255 "_c" NUL 7 and came back.
W_C5_custom ==
   /\ pc = "done"
   /\ spell.pieces[1].data.params = Some({<<P_CUSTOM, 7>>})
   /\ EndsWith(data, <<1, 255>> \o P_CUSTOM \o <<0, 7>>)
   /\ pieces[1].data.params = Some({<<P_CUSTOM, 7>>})

\* C6: a decoded piece never has both parameters and a constant; after the
\* discriminator 255 it has a constant and no parameters, after 254 neither,
\* after a parameter count no constant.
Thm_C6 ==
   /\ \A i \in 1..Len(pieces) :
         ~(IsSome(pieces[i].data.params) /\ IsSome(pieces[i].data.constant))
   /\ (pc \in {"loop", "done"} /\ pieces # <<>>) =>
         LET d == pieces[Len(pieces)].data
         IN  /\ ty = 255 => IsSome(d.constant) /\ d.params = None
             /\ ty = 254 => d.constant = None /\ d.params = None
             /\ ty < 254 => d.constant = None

\* C6 happens: decode returned a piece read after the discriminator 255.
W_C6 ==
   /\ pc = "done"
   /\ pieces # <<>>
   /\ ty = 255
   /\ IsSome(pieces[Len(pieces)].data.constant)

\* The unread input.
Rest == SubSeq(data, pos + 1, Len(data))

\* The read decode stands at finds the input ended: before the terminator it
\* reads up to, or before the byte it reads.
Truncated ==
   \/ pc \in {"name", "key", "comment"} /\ NoByte(NUL, Rest)
   \/ pc = "mods" /\ NoByte(RBRACKET, Rest)
   \/ pc = "type" /\ (Rest = <<>> \/ (Rest[1] = 255 /\ NoByte(NUL, Tail(Rest))))
   \/ pc = "param" /\ todo > 0 /\
         \/ Rest = <<>>
         \/ Rest[1] = 255 /\ NoByte(NUL, Tail(Rest))
         \/ Rest[1] = 255 /\ Min({j \in 2..Len(Rest) : Rest[j] = NUL}) = Len(Rest)
         \/ Rest[1] # 255 /\ Len(Rest) < 2

\* C7: whenever the input ends before an expected terminator or a required byte,
\* decode fails there; it returns no record.
CX_C7 == [][Truncated => pc' = "panic"]_vars

\* C8: a parameter entry whose first byte is in 43..254 makes decode fail; no
\* name is put in its place.
Thm_C8 ==
   [][(pc = "param" /\ todo > 0 /\ Rest # <<>> /\ Rest[1] \in 43..254)
         => (pc' = "panic" /\ params' = params /\ pieces' = pieces)]_vars

\* C8 happens: decode has panicked on a dictionary index out of range.
W_C8 == pc = "panic" /\ cause = "index" /\ Rest[1] \in 43..254

W_C9_fails ==
   /\ pc = "panic"
   /\ spell.mods = <<>>
   /\ spell.pieces # <<>>
   /\ pos = 0

W_C9_piece ==
   /\ pc = "done"
   /\ spell.mods = <<>>
   /\ spell.pieces # <<>>
   /\ name # spell.name

\* The key Spell::bin is to write: `psi:` removed from the front, if there.
ExpectedKey(k) ==
   IF Len(k) >= 4 /\ SubSeq(k, 1, 4) = PSI THEN SubSeq(k, 5, Len(k)) ELSE k

\* C10: Spell::bin returns for every record that satisfies the invariants, keys
\* shorter than four bytes included, and writes each key without a leading
\* `psi:`, then NUL.
CX_C10 ==
   SatisfiesInvariants(spell) =>
      /\ pc # "bin_panic"
      /\ (Encoded /\ spell.pieces # <<>>) =>
            LET k == ExpectedKey(spell.pieces[1].data.key)
            IN  SubSeq(data, CoordAt(spell) + 1, CoordAt(spell) + Len(k) + 1) = k \o <<NUL>>

=============================================================================
